---- MODULE Spec2Model ----
(***************************************************************************)
(* Model of the request pipeline of src/services/githubService.ts (the     *)
(* version of the module that starts at line 59): the promise cache, the   *)
(* request queue and its drain loop, the 403 bookkeeping, the token, and   *)
(* the paginated accessors built on cachedRequest.                         *)
(*                                                                         *)
(* Time is counted in seconds (every delay of the source is a whole number *)
(* of seconds).  A promise returned by cachedRequest is identified by a    *)
(* number; the promises created by retries forward their outcome to the    *)
(* resolve/reject of the promise they retry (retryPromise.then(resolve)    *)
(* .catch(reject)), so a retry carries the identifier of the promise whose *)
(* outcome it decides.                                                     *)
(***************************************************************************)
EXTENDS Integers, Sequences, FiniteSets, TLC

\* ---------------------------------------------------------------- bounds
MaxCalls == 2        \* calls of cachedRequest made by callers
MaxFetches == 3      \* network attempts (fetch) of the pipeline
MaxTime == 70        \* the clock stops advancing here
MaxTokenSets == 2    \* calls of setGitHubToken
MaxIdleTicks == 1    \* times the clock advances while no timer is set
MaxPages == 3        \* full pages the remote collection may hold
MaxAccessorCalls == 2  \* calls of getRepos / getFollowers / getFollowing
MaxPagerTicks == 3   \* times the clock advances between accessor calls
MaxOrderCalls == 3   \* calls of cachedRequest where the order of requests is checked
MaxOrderFetches == 4 \* network attempts where the order of requests is checked
MaxOrderTime == 81   \* the clock stops here where the order of requests is checked

\* ------------------------------------------------------ program constants
REQUEST_DELAY == 1
MAX_FORBIDDEN_ERRORS == 3
FORBIDDEN_COOLDOWN == 60
DEFAULT_REMAINING == 60
TOKEN_REMAINING == 5000
RESET_HORIZON == 3600
FORBIDDEN_STEP == 10
FORBIDDEN_DEFAULT_RETRY == 30
CACHED_FORBIDDEN_RETRY == 30
CACHED_GENERIC_RETRY == 5
LOW_REMAINING == 5
MID_REMAINING == 15
PACE_PER_FORBIDDEN == 2
per_page == 100
STORAGE_TTL == 900

\* ------------------------------------------------------------ environment
Keys == {"users/a", "users/b"}          \* request descriptors (cacheKey)
Tokens == {"ghp_0123456789", "secret"}   \* credentials a user may set
Blanks == {"", "  "}                     \* values setGitHubToken refuses
NoHdr == << >>                           \* a header the response does not carry
Hdr(v) == <<v>>                          \* a header carrying the number v
ResetAhead == 5                          \* X-RateLimit-Reset, seconds ahead
IdleStep == 10                           \* time that passes while no timer is set
RL == "rate limit exceeded"
FB == "Forbidden"

VARIABLES
  now,                      \* Date.now(), in seconds
  GITHUB_TOKEN,
  cache,                    \* cacheKey -> promise stored for it
  requestQueue,             \* sequence of closures
  isProcessingQueue,
  drains,                   \* drain loops suspended in their pacing delay
  resumes,                  \* pending cooldown resume timers (their due time)
  remainingRequests, resetTime,
  forbiddenErrorCount, lastForbiddenErrorTime,
  promises,                 \* the promises handed to callers, by number
  inflight,                 \* fetches sent and not yet answered
  timers,                   \* pending retry timers
  nFetch,                   \* fetches issued so far
  probes,                   \* rate_limit probes of setGitHubToken in flight
  nTokenSets,
  idleTicks,                \* times the clock advanced with no timer set
  okSince,                  \* per key: value of the last success since the last purge
  quotaSince,               \* history: the last call of setGitHubToken
  nPush,                    \* history: pushes onto requestQueue so far
  lastExec,                 \* history: the push number of the item executed last
  lastResp,                 \* history: the response handled last, and its promise
  total,                    \* items the remote collection holds
  sessionStorage,           \* cacheKey -> [data, timestamp]
  acc,                      \* the accessor call in progress (or the last one)
  nAccessorCalls,
  nPagerTicks,
  location,                 \* the path of the current URL
  lastNav,                  \* history: the last navigateToTab, and the hook
                            \* functions called since the URL was opened
  apiRequests,              \* accessor calls made since the URL was opened
  userDataCache             \* useUserData: lower-cased usernames with cached data

vars == <<now, GITHUB_TOKEN, cache, requestQueue, isProcessingQueue, drains,
          resumes, remainingRequests, resetTime, forbiddenErrorCount,
          lastForbiddenErrorTime, promises, inflight, timers, nFetch, probes,
          nTokenSets, idleTicks, okSince, quotaSince, nPush, lastExec, lastResp,
          total, sessionStorage, acc,
          nAccessorCalls, nPagerTicks, location, lastNav, apiRequests,
          userDataCache>>

uiVars == <<location, lastNav, apiRequests, userDataCache>>

pagerVars == <<total, sessionStorage, acc, nAccessorCalls, nPagerTicks>>

pipelineVars == <<GITHUB_TOKEN, cache, requestQueue, isProcessingQueue, drains,
                  resumes, remainingRequests, resetTime, forbiddenErrorCount,
                  lastForbiddenErrorTime, promises, inflight, timers, nFetch,
                  probes, nTokenSets, idleTicks, okSince, quotaSince, nPush,
                  lastExec, lastResp>>

\* ------------------------------------------------------------------ state
\* The mutable state a handler and the functions it calls work on.
G == [q |-> requestQueue, ipq |-> isProcessingQueue, drains |-> drains,
      resumes |-> resumes, rem |-> remainingRequests, reset |-> resetTime,
      fc |-> forbiddenErrorCount, lastF |-> lastForbiddenErrorTime,
      cache |-> cache, timers |-> timers, pr |-> promises,
      inflight |-> inflight, nFetch |-> nFetch, nPush |-> nPush,
      lastExec |-> lastExec]

Commit(g) ==
  /\ requestQueue' = g.q
  /\ isProcessingQueue' = g.ipq
  /\ drains' = g.drains
  /\ resumes' = g.resumes
  /\ remainingRequests' = g.rem
  /\ resetTime' = g.reset
  /\ forbiddenErrorCount' = g.fc
  /\ lastForbiddenErrorTime' = g.lastF
  /\ cache' = g.cache
  /\ timers' = g.timers
  /\ promises' = g.pr
  /\ inflight' = g.inflight
  /\ nFetch' = g.nFetch
  /\ nPush' = g.nPush
  /\ lastExec' = g.lastExec

Max(a, b) == IF a >= b THEN a ELSE b

Includes(msg, s) == s \in msg

\* ------------------------------------------------------------ processQueue
PacingDelay(rem, fc) ==
  (IF rem <= LOW_REMAINING THEN REQUEST_DELAY * 4
   ELSE IF rem <= MID_REMAINING THEN REQUEST_DELAY * 2
   ELSE REQUEST_DELAY)
  + (IF fc > 0 THEN fc * PACE_PER_FORBIDDEN ELSE 0)

InCooldown(g) ==
  g.fc >= MAX_FORBIDDEN_ERRORS /\ now - g.lastF < FORBIDDEN_COOLDOWN

\* the while loop: shift the next closure and wait `delay` before running it
DrainNext(g, delay) ==
  IF g.q # <<>>
  THEN [g EXCEPT !.q = Tail(@),
                 !.drains = @ \cup {[item |-> Head(g.q), due |-> now + delay,
                                     delay |-> delay]}]
  ELSE [g EXCEPT !.ipq = FALSE]

\* (mutant) processQueue does not look at the draining flag
ProcessQueueUnguarded(g) ==
  IF g.q = <<>> THEN g
  ELSE IF InCooldown(g)
  THEN [g EXCEPT !.ipq = TRUE,
                 !.resumes = @ \cup {g.lastF + FORBIDDEN_COOLDOWN}]
  ELSE DrainNext([g EXCEPT !.ipq = TRUE], PacingDelay(g.rem, g.fc))

\* (mutant) the cooldown branch returns without setting the resume timer
ProcessQueueNoResume(g) ==
  IF g.ipq \/ g.q = <<>> THEN g
  ELSE IF InCooldown(g) THEN [g EXCEPT !.ipq = TRUE]
  ELSE LET g1 == IF now > g.reset
                 THEN [g EXCEPT !.rem = DEFAULT_REMAINING,
                                !.reset = now + RESET_HORIZON,
                                !.fc = 0]
                 ELSE g
       IN DrainNext([g1 EXCEPT !.ipq = TRUE], PacingDelay(g1.rem, g1.fc))

ProcessQueue(g) ==
  IF g.ipq \/ g.q = <<>> THEN g
  ELSE IF InCooldown(g)
  THEN [g EXCEPT !.ipq = TRUE,
                 !.resumes = @ \cup {g.lastF + FORBIDDEN_COOLDOWN}]
  ELSE LET g1 == IF now > g.reset
                 THEN [g EXCEPT !.rem = DEFAULT_REMAINING,
                                !.reset = now + RESET_HORIZON,
                                !.fc = 0]
                 ELSE g
       IN DrainNext([g1 EXCEPT !.ipq = TRUE], PacingDelay(g1.rem, g1.fc))

\* ----------------------------------------------------------- cachedRequest
CacheDelete(c, k) == [x \in DOMAIN c \ {k} |-> c[x]]

\* n is the number of the push that puts the closure on the queue (history)
ExecItem(p) == [kind |-> "executeRequest", p |-> p, n |-> 0]
RetryItem(p) == [kind |-> "retryRequest", p |-> p, n |-> 0]

\* (mutant) the closure is put at the head of the queue
PushAhead(g, item) ==
  [g EXCEPT !.q = <<[item EXCEPT !.n = g.nPush + 1]>> \o @, !.nPush = @ + 1]

\* requestQueue.push(item)
Push(g, item) ==
  [g EXCEPT !.q = Append(@, [item EXCEPT !.n = g.nPush + 1]), !.nPush = @ + 1]
\* setTimeout(() => cachedRequest(url, options)..., delay); guard tells the
\* timer of the cooldown guard of executeRequest from the retry timers
Timer(p, delay, guard) == [p |-> p, due |-> now + delay, guard |-> guard]
AddTimer(g, p, delay) == [g EXCEPT !.timers = @ \cup {Timer(p, delay, FALSE)}]

\* (mutant) a Forbidden error is not retried
ErrorClassForbiddenFatal(msg) ==
  IF Includes(msg, RL) THEN "requeue" ELSE "other"

\* (mutant) every error that is not a rate limit error is retried after a delay
ErrorClassRetryAll(msg) ==
  IF Includes(msg, RL) THEN "requeue" ELSE "delay"

\* what the catch handlers do with an error, read off its message
ErrorClass(msg) ==
  IF Includes(msg, RL) THEN "requeue"
  ELSE IF Includes(msg, FB) THEN "delay"
  ELSE "other"

\* the .catch handler of the cache-hit branch, for the caller holding promise p
CatchCached(g, p, msg) ==
  LET g1 == [g EXCEPT !.cache = CacheDelete(@, g.pr[p].key), !.pr[p].follow = 0]
  IN CASE ErrorClass(msg) = "requeue" -> ProcessQueue(Push(g1, RetryItem(p)))
       [] ErrorClass(msg) = "delay" -> AddTimer(g1, p, CACHED_FORBIDDEN_RETRY)
       [] OTHER -> AddTimer(g1, p, CACHED_GENERIC_RETRY)

\* cachedRequest(url, options) whose outcome settles promise p
CachedRequest(g, p) ==
  LET k == g.pr[p].key IN
  IF k \in DOMAIN g.cache
  THEN LET o == g.pr[g.cache[k]] IN
       CASE o.st = "pending" -> [g EXCEPT !.pr[p].follow = g.cache[k]]
         [] o.st = "resolved" -> [g EXCEPT !.pr[p].st = "resolved", !.pr[p].val = o.val]
         [] OTHER -> CatchCached(g, p, o.err)
  ELSE ProcessQueue(Push(g, ExecItem(p)))

RECURSIVE CatchAll(_, _, _)
CatchAll(g, ps, msg) ==
  IF ps = {} THEN g
  ELSE LET p == CHOOSE x \in ps : \A y \in ps : x <= y
       IN CatchAll(CatchCached(g, p, msg), ps \ {p}, msg)

Followers(g, p) == {x \in DOMAIN g.pr : g.pr[x].follow = p}

Resolve(g, p, v) ==
  [g EXCEPT !.pr = [x \in DOMAIN g.pr |->
      IF x = p \/ g.pr[x].follow = p
      THEN [g.pr[x] EXCEPT !.st = "resolved", !.val = v, !.follow = 0]
      ELSE g.pr[x]]]

Reject(g, p, msg) ==
  CatchAll([g EXCEPT !.pr[p].st = "rejected", !.pr[p].err = msg],
           Followers(g, p), msg)

CooldownRemaining(g) == FORBIDDEN_COOLDOWN - (now - g.lastF)

\* (mutant) no request carries the credential
AuthHeaderDropped == "none"

\* the Authorization header of a request ("none": the header is absent)
AuthHeader == IF GITHUB_TOKEN # "" THEN GITHUB_TOKEN ELSE "none"

\* (mutant) executeRequest does not look at the cooldown
GuardedNever(g) == FALSE

\* the cooldown guard of executeRequest
Guarded(g) == g.fc >= MAX_FORBIDDEN_ERRORS /\ CooldownRemaining(g) > 0

ExecuteRequest(g, p) ==
  IF Guarded(g)
  THEN [g EXCEPT !.timers = @ \cup {Timer(p, CooldownRemaining(g) + 1, TRUE)},
                 !.pr[p].deferred = TRUE]
  ELSE [g EXCEPT !.inflight = @ \cup {[p |-> p, id |-> g.nFetch + 1,
                                       auth |-> AuthHeader, at |-> now]},
                 !.nFetch = @ + 1]

\* (mutant) the failed promise is stored in the cache instead of being removed
CatchKeepingEntry(g, p, msg, retryDelay) ==
  LET k == g.pr[p].key
      g1 == [g EXCEPT !.cache = [x \in DOMAIN g.cache \cup {k} |->
                                   IF x = k THEN p ELSE g.cache[x]]]
  IN CASE ErrorClass(msg) = "requeue" -> ProcessQueue(Push(g1, RetryItem(p)))
       [] ErrorClass(msg) = "delay" ->
            AddTimer(g1, p, IF retryDelay # 0 THEN retryDelay
                            ELSE FORBIDDEN_DEFAULT_RETRY)
       [] OTHER -> Reject(g1, p, msg)

\* the .catch of executeRequest
Catch(g, p, msg, retryDelay) ==
  LET g1 == [g EXCEPT !.cache = CacheDelete(@, g.pr[p].key)]
  IN CASE ErrorClass(msg) = "requeue" -> ProcessQueue(Push(g1, RetryItem(p)))
       [] ErrorClass(msg) = "delay" ->
            AddTimer(g1, p, IF retryDelay # 0 THEN retryDelay
                            ELSE FORBIDDEN_DEFAULT_RETRY)
       [] OTHER -> Reject(g1, p, msg)

\* ------------------------------------------------------------- responses
\* status 0 stands for a fetch that rejects (no response); body is the set of
\* marker substrings the JSON body's message holds
Quota(rem) == <<Hdr(rem), Hdr(now + ResetAhead)>>
NoQuota == <<NoHdr, NoHdr>>

Response(s, h, ra, b) ==
  [status |-> s, rem |-> h[1], reset |-> h[2], retryAfter |-> ra, body |-> b]

Responses ==
  {Response(0, NoQuota, NoHdr, {}),
   Response(200, NoQuota, NoHdr, {}),
   Response(200, Quota(50), NoHdr, {}),
   Response(204, NoQuota, NoHdr, {}),
   Response(403, Quota(0), NoHdr, {}),
   Response(403, NoQuota, NoHdr, {}),
   Response(403, Quota(50), Hdr(0), {}),
   Response(403, Quota(50), Hdr(5), {})}
  \cup {Response(404, NoQuota, NoHdr, b) : b \in {{}, {RL}, {FB}}}

\* the messages of the errors the response handler throws
RateLimitMessage == {RL}                 \* "API rate limit exceeded. Resets in ..."
ForbiddenMessage == {FB}                 \* "... (403 Forbidden). ..."
HttpErrorMessage(r) == r.body            \* "HTTP Error: <status> - <message>"
TransportMessage == {}                   \* "Failed to fetch"

\* the class of a response, as the remote service means it
Kind(r, rem) ==
  CASE r.status = 0 -> "transport"
    [] r.status = 204 -> "nocontent"
    [] r.status = 403 /\ rem = 0 -> "exhausted"
    [] r.status = 403 -> "forbidden"
    [] r.status = 200 -> "ok"
    [] OTHER -> "http"

RetryDelay(r, fc) ==
  IF r.retryAfter # NoHdr THEN r.retryAfter[1] ELSE fc * FORBIDDEN_STEP

\* (mutant) the quota headers of a failed response are ignored
ApplyQuotaOnSuccess(g, r) ==
  IF r.status \in {200, 204}
  THEN [g EXCEPT !.rem = IF r.rem # NoHdr THEN r.rem[1] ELSE @,
                 !.reset = IF r.reset # NoHdr THEN r.reset[1] ELSE @]
  ELSE g

\* X-RateLimit-Remaining and X-RateLimit-Reset, each applied when present
ApplyQuota(g, r) ==
  [g EXCEPT !.rem = IF r.rem # NoHdr THEN r.rem[1] ELSE @,
            !.reset = IF r.reset # NoHdr THEN r.reset[1] ELSE @]

\* fetch(...).then(response => ...).then(data => resolve(data)).catch(...)
\* for the fetch f answered by r
OnResponse(g, f, r) ==
  LET p == f.p
      g1 == ApplyQuota(g, r)
  IN CASE r.status = 0 -> Catch(g, p, TransportMessage, 0)
       [] r.status = 204 -> Resolve(g1, p, f.id)
       [] r.status = 403 ->
            LET g2 == [g1 EXCEPT !.fc = @ + 1, !.lastF = now,
                                 !.cache = CacheDelete(@, g.pr[p].key)]
            IN IF g2.rem = 0
               THEN Catch(g2, p, RateLimitMessage, 0)
               ELSE Catch(g2, p, ForbiddenMessage, RetryDelay(r, g2.fc))
       [] r.status = 200 ->
            Resolve([g1 EXCEPT !.fc = IF @ > 0 THEN Max(0, @ - 1) ELSE @], p, f.id)
       [] OTHER ->
            Catch([g1 EXCEPT !.cache = CacheDelete(@, g.pr[p].key)], p,
                  HttpErrorMessage(r), 0)

\* ---------------------------------------------------------------- actions
NewPromise(k) ==
  [key |-> k, st |-> "pending", val |-> 0, err |-> {}, follow |-> 0,
   hist |-> <<>>, fetches |-> 0, last |-> 0,
   joined |-> IF \E x \in DOMAIN promises :
                   promises[x].key = k /\ promises[x].st = "pending"
              THEN CHOOSE x \in DOMAIN promises :
                     /\ promises[x].key = k /\ promises[x].st = "pending"
                     /\ \A y \in DOMAIN promises :
                          (promises[y].key = k /\ promises[y].st = "pending") => x <= y
              ELSE 0,
   prior |-> okSince[k], afterFail |-> \E x \in DOMAIN promises :
                   promises[x].key = k /\ promises[x].st = "rejected",
   floor |-> 0, notBefore |-> 0, tokAtCall |-> GITHUB_TOKEN,
   deferred |-> FALSE]

\* history: the value of the last success per key since the last purge
OkAfter(g) ==
  [k \in Keys |->
     IF \E x \in DOMAIN promises :
          promises[x].key = k /\ promises[x].st = "pending" /\ g.pr[x].st = "resolved"
     THEN LET x == CHOOSE x \in DOMAIN promises :
                 promises[x].key = k /\ promises[x].st = "pending"
                 /\ g.pr[x].st = "resolved"
          IN g.pr[x].val
     ELSE okSince[k]]

\* a caller calls cachedRequest(url) (getUser, a page of getRepos, ...), as
\* long as fewer than maxCalls calls were made
CallWithin(k, maxCalls) ==
  /\ Len(promises) < maxCalls
  /\ LET p == Len(promises) + 1
         g == CachedRequest([G EXCEPT !.pr = Append(@, NewPromise(k))], p)
     IN Commit(g) /\ okSince' = OkAfter(g)
  /\ UNCHANGED <<now, GITHUB_TOKEN, probes, nTokenSets, idleTicks, quotaSince,
                 lastResp>>
  /\ UNCHANGED pagerVars
  /\ UNCHANGED uiVars

Call(k) == CallWithin(k, MaxCalls)

\* history kept with a fetch: the promise counts it
CountFetch(g) ==
  [g EXCEPT !.pr = [x \in DOMAIN g.pr |->
      IF \E f \in g.inflight \ inflight : f.p = x
      THEN [g.pr[x] EXCEPT !.fetches = @ + 1] ELSE g.pr[x]]]

RunItem(g, item) ==
  IF item.kind = "executeRequest" THEN ExecuteRequest(g, item.p)
  ELSE CachedRequest(g, item.p)

\* the pacing delay of a drain loop ends: request(), then the loop goes on;
\* at most maxFetches fetches are issued
DrainFireWithin(d, maxFetches) ==
  /\ d \in drains
  /\ now >= d.due
  /\ (d.item.kind = "executeRequest" /\ ~InCooldown(G)) => nFetch < maxFetches
  /\ LET g1 == RunItem([G EXCEPT !.drains = @ \ {d}, !.lastExec = d.item.n], d.item)
         g2 == CountFetch(DrainNext(g1, d.delay))
     IN Commit(g2) /\ okSince' = OkAfter(g2)
  /\ UNCHANGED <<now, GITHUB_TOKEN, probes, nTokenSets, idleTicks, quotaSince,
                 lastResp>>
  /\ UNCHANGED pagerVars
  /\ UNCHANGED uiVars

DrainFire(d) == DrainFireWithin(d, MaxFetches)

\* the cooldown timer of processQueue fires
ResumeFire(t) ==
  /\ t \in resumes
  /\ now >= t
  /\ Commit(ProcessQueue([G EXCEPT !.resumes = @ \ {t}, !.ipq = FALSE]))
  /\ UNCHANGED <<now, GITHUB_TOKEN, probes, nTokenSets, idleTicks, okSince,
                 quotaSince, lastResp>>
  /\ UNCHANGED pagerVars
  /\ UNCHANGED uiVars

\* a retry timer fires: cachedRequest(url, options), forwarded to the promise
TimerFire(t) ==
  /\ t \in timers
  /\ now >= t.due
  /\ LET g == CachedRequest([G EXCEPT !.timers = @ \ {t}], t.p)
     IN Commit(g) /\ okSince' = OkAfter(g)
  /\ UNCHANGED <<now, GITHUB_TOKEN, probes, nTokenSets, idleTicks, quotaSince,
                 lastResp>>
  /\ UNCHANGED pagerVars
  /\ UNCHANGED uiVars

\* history kept with a response: its class, and what it lets the retry expect
Note(g, f, r) ==
  LET rem == IF r.rem # NoHdr THEN r.rem[1] ELSE g.rem
      rst == IF r.reset # NoHdr THEN r.reset[1] ELSE g.reset
      k == Kind(r, rem)
  IN [g EXCEPT !.pr[f.p].hist = Append(@, k),
               !.pr[f.p].last = f.id,
               !.pr[f.p].floor = IF k = "exhausted" THEN rst ELSE @,
               !.pr[f.p].notBefore =
                   IF k = "forbidden"
                   THEN now + (IF RetryDelay(r, g.fc + 1) # 0
                               THEN RetryDelay(r, g.fc + 1)
                               ELSE FORBIDDEN_DEFAULT_RETRY)
                   ELSE @]

\* the remote answers a fetch (or the fetch fails)
RespondTo(f, r) ==
  /\ f \in inflight
  /\ LET g == OnResponse(Note([G EXCEPT !.inflight = @ \ {f}], f, r), f, r)
     IN Commit(g) /\ okSince' = OkAfter(g)
  /\ quotaSince' = [quotaSince EXCEPT !.touched =
                       @ \/ r.rem # NoHdr \/ r.reset # NoHdr]
  /\ UNCHANGED <<now, GITHUB_TOKEN, probes, nTokenSets, idleTicks>>
  /\ UNCHANGED pagerVars
  /\ UNCHANGED uiVars

\* the same, with the history of the response handled last
Respond(f, r) ==
  /\ RespondTo(f, r)
  /\ lastResp' = [n |-> lastResp.n + 1, p |-> f.p, r |-> r]

\* String.prototype.trim, for values padded with spaces
RECURSIVE Trim(_)
Trim(t) ==
  IF t = "" THEN t
  ELSE IF SubSeq(t, 1, 1) = " " THEN Trim(SubSeq(t, 2, Len(t)))
  ELSE IF SubSeq(t, Len(t), Len(t)) = " " THEN Trim(SubSeq(t, 1, Len(t) - 1))
  ELSE t

TokenAlphabet ==
  "abcdefghijklmnopqrstuvwxyzABCDEFGHIJKLMNOPQRSTUVWXYZ0123456789_-"

\* /^(ghp_|github_pat_)[a-zA-Z0-9_-]{10,}/
tokenRegex(t) ==
  \E n \in {Len("ghp_"), Len("github_pat_")} :
    /\ Len(t) >= n + 10
    /\ SubSeq(t, 1, n) \in {"ghp_", "github_pat_"}
    /\ \A i \in (n + 1)..(n + 10) :
         \E c \in 1..Len(TokenAlphabet) :
           SubSeq(TokenAlphabet, c, c) = SubSeq(t, i, i)

\* (mutant) a value of unexpected format is refused as well
RefusedUnlessWellFormed(t) == t = "" \/ Trim(t) = "" \/ ~tokenRegex(t)

\* the values setGitHubToken returns on without storing them
Refused(t) == t = "" \/ Trim(t) = ""

\* what setGitHubToken resets once the token is stored
ResetForToken(g) ==
  [g EXCEPT !.fc = 0, !.lastF = 0, !.rem = TOKEN_REMAINING,
            !.reset = now + RESET_HORIZON, !.cache = << >>]

\* setGitHubToken(token)
SetToken(t) ==
  /\ nTokenSets < MaxTokenSets
  /\ nTokenSets' = nTokenSets + 1
  /\ IF Refused(t)
     THEN /\ quotaSince' = [quotaSince EXCEPT !.arg = t]
          /\ UNCHANGED <<GITHUB_TOKEN, probes, okSince>>
          /\ Commit(G)
     ELSE /\ GITHUB_TOKEN' = t
          /\ Commit(ResetForToken(G))
          /\ probes' = probes \cup {[id |-> nTokenSets + 1, auth |-> t]}
          /\ okSince' = [k \in Keys |-> 0]
          /\ quotaSince' = [arg |-> t, at |-> now, touched |-> FALSE,
                            warned |-> ~tokenRegex(t)]
  /\ UNCHANGED <<now, idleTicks, lastResp>>
  /\ UNCHANGED pagerVars
  /\ UNCHANGED uiVars

\* data.resources.core.remaining of the answer to a probe: the quota left to
\* the account of the credential the probe carries
CoreRemaining(auth) ==
  IF auth = "ghp_0123456789" THEN TOKEN_REMAINING - 1 ELSE TOKEN_REMAINING - 2

\* the rate_limit probe is answered: ok with data.resources.core, or not ok
ProbeRespond(p, ok) ==
  /\ p \in probes
  /\ probes' = probes \ {p}
  /\ IF ok
     THEN /\ remainingRequests' = CoreRemaining(p.auth)
          /\ resetTime' = now + ResetAhead
          /\ quotaSince' = [quotaSince EXCEPT !.touched = TRUE]
     ELSE UNCHANGED <<remainingRequests, resetTime, quotaSince>>
  /\ UNCHANGED <<now, GITHUB_TOKEN, cache, requestQueue, isProcessingQueue, drains,
                 resumes, forbiddenErrorCount, lastForbiddenErrorTime, promises,
                 inflight, timers, nFetch, nTokenSets, idleTicks, okSince,
                 nPush, lastExec, lastResp>>
  /\ UNCHANGED pagerVars
  /\ UNCHANGED uiVars

Deadlines == {t.due : t \in timers} \cup {d.due : d \in drains} \cup resumes

\* time passes: to the next timer that is due, or by IdleStep when none is
\* set, and not beyond maxTime
TickWithin(maxTime) ==
  /\ \A t \in Deadlines : t > now
  /\ now' = IF Deadlines # {}
            THEN CHOOSE t \in Deadlines : \A u \in Deadlines : t <= u
            ELSE now + IdleStep
  /\ now' <= maxTime
  /\ idleTicks' = IF Deadlines # {} THEN idleTicks ELSE idleTicks + 1
  /\ idleTicks' <= MaxIdleTicks
  /\ UNCHANGED <<GITHUB_TOKEN, cache, requestQueue, isProcessingQueue, drains,
                 resumes, remainingRequests, resetTime, forbiddenErrorCount,
                 lastForbiddenErrorTime, promises, inflight, timers, nFetch,
                 probes, nTokenSets, okSince, quotaSince, nPush, lastExec,
                 lastResp>>
  /\ UNCHANGED pagerVars
  /\ UNCHANGED uiVars

Tick == TickWithin(MaxTime)

\* the quota window runs out while the pipeline is idle
WindowElapses ==
  /\ Deadlines = {} /\ inflight = {}
  /\ now <= MaxTime /\ now <= resetTime
  /\ now' = resetTime + 1
  /\ UNCHANGED <<GITHUB_TOKEN, cache, requestQueue, isProcessingQueue, drains,
                 resumes, remainingRequests, resetTime, forbiddenErrorCount,
                 lastForbiddenErrorTime, promises, inflight, timers, nFetch,
                 probes, nTokenSets, idleTicks, okSince, quotaSince, nPush,
                 lastExec, lastResp>>
  /\ UNCHANGED pagerVars
  /\ UNCHANGED uiVars

PipelineInit ==
  /\ GITHUB_TOKEN = ""
  /\ cache = << >>
  /\ requestQueue = << >>
  /\ isProcessingQueue = FALSE
  /\ drains = {}
  /\ resumes = {}
  /\ remainingRequests = DEFAULT_REMAINING
  /\ resetTime = RESET_HORIZON
  /\ forbiddenErrorCount = 0
  /\ lastForbiddenErrorTime = 0
  /\ promises = << >>
  /\ inflight = {}
  /\ timers = {}
  /\ nFetch = 0
  /\ probes = {}
  /\ nTokenSets = 0
  /\ idleTicks = 0
  /\ okSince = [k \in Keys |-> 0]
  /\ quotaSince = [arg |-> "", at |-> 0, touched |-> FALSE, warned |-> FALSE]
  /\ nPush = 0
  /\ lastExec = 0
  /\ lastResp = [n |-> 0, p |-> 0, r |-> Response(200, NoQuota, NoHdr, {})]

\* -------------------------------------------------- paginated accessors
Accessors == {"getRepos", "getFollowers", "getFollowing"}
Owners == {"alice", "bob"}
Limits == {0, 100, 150, 250}
Totals == {t \in 0..(MaxPages * per_page) : t % per_page \in {0, 42, 50}}

Min(a, b) == IF a <= b THEN a ELSE b

\* the remote collection, in the order the remote returns it
Source == [i \in 1..total |-> i]

\* what the remote answers to per_page=100&page=n
RemotePage(n) ==
  LET first == (n - 1) * per_page
      len == Max(0, Min(per_page, total - first))
  IN [i \in 1..len |-> first + i]

\* the template string `followers_${username}_${limit}` / `following_...`
StorageKey(a, owner, limit) ==
  (IF a = "getFollowers" THEN "followers" ELSE "following")
    \o "_" \o owner \o "_" \o ToString(limit)

NoCall ==
  [fn |-> "none", owner |-> "", limit |-> 0, pc |-> "idle", page |-> 1,
   all |-> << >>, hasNextPage |-> TRUE, requested |-> << >>, askedAt |-> << >>,
   result |-> << >>, fromStorage |-> FALSE, storageAtCall |-> << >>,
   rejected |-> 0, calledAt |-> 0]

\* the loop condition of the accessor
LoopGoesOn(a) ==
  IF a.fn = "getRepos" THEN a.hasNextPage
  ELSE a.hasNextPage /\ (Len(a.all) < a.limit \/ a.limit = 0)

\* (mutant) getRepos goes on until a page comes back empty
ReposStepUntilEmpty(a, items) ==
  IF Len(items) > 0
  THEN [a EXCEPT !.all = a.all \o items, !.hasNextPage = TRUE, !.page = @ + 1]
  ELSE [a EXCEPT !.hasNextPage = FALSE]

\* the body of the loop of getRepos, for the page `items`
ReposStep(a, items) ==
  IF Len(items) > 0
  THEN [a EXCEPT !.all = a.all \o items,
                 !.hasNextPage = (Len(items) = per_page),
                 !.page = @ + 1]
  ELSE [a EXCEPT !.hasNextPage = FALSE]

\* (mutant) the page that crosses the limit is appended whole
FollowStepNoTruncation(a, items) ==
  IF Len(items) > 0
  THEN IF a.limit > 0 /\ Len(a.all) + Len(items) > a.limit
       THEN [a EXCEPT !.all = a.all \o items, !.hasNextPage = FALSE]
       ELSE [a EXCEPT !.all = a.all \o items,
                      !.hasNextPage = (Len(items) = per_page),
                      !.page = @ + 1]
  ELSE [a EXCEPT !.hasNextPage = FALSE]

\* the body of the loop of getFollowers / getFollowing, for the page `items`
FollowStep(a, items) ==
  IF Len(items) > 0
  THEN IF a.limit > 0 /\ Len(a.all) + Len(items) > a.limit
       THEN [a EXCEPT !.all = a.all \o SubSeq(items, 1, a.limit - Len(a.all)),
                      !.hasNextPage = FALSE]
       ELSE [a EXCEPT !.all = a.all \o items,
                      !.hasNextPage = (Len(items) = per_page),
                      !.page = @ + 1]
  ELSE [a EXCEPT !.hasNextPage = FALSE]

\* sessionStorage.setItem(cacheKey, {data, timestamp})
StorageAfter(st, a) ==
  IF a.fn = "getRepos" THEN st
  ELSE LET k == StorageKey(a.fn, a.owner, a.limit)
       IN [x \in DOMAIN st \cup {k} |->
             IF x = k THEN [data |-> a.all, timestamp |-> now] ELSE st[x]]

\* the loop head: ask for the next page, or store and return what was collected
Loop(a) ==
  IF LoopGoesOn(a)
  THEN /\ acc' = [a EXCEPT !.pc = "awaiting",
                           !.requested = Append(@, a.page),
                           !.askedAt = Append(@, Len(a.all))]
       /\ UNCHANGED sessionStorage
  ELSE /\ acc' = [a EXCEPT !.pc = "returned", !.result = a.all]
       /\ sessionStorage' = StorageAfter(sessionStorage, a)

\* (mutant) a persisted entry is used whatever its age
FreshEntryNoTTL(fn, owner, limit) ==
  /\ fn # "getRepos"
  /\ StorageKey(fn, owner, limit) \in DOMAIN sessionStorage

\* the persisted entry the accessor may answer from
FreshEntry(fn, owner, limit) ==
  /\ fn # "getRepos"
  /\ StorageKey(fn, owner, limit) \in DOMAIN sessionStorage
  /\ now - sessionStorage[StorageKey(fn, owner, limit)].timestamp < STORAGE_TTL

\* a caller calls getRepos(owner) / getFollowers(owner, limit) / getFollowing(owner, limit)
CallAccessor(fn, owner, limit) ==
  /\ acc.pc \in {"idle", "returned", "thrown"}
  /\ nAccessorCalls < MaxAccessorCalls
  /\ nAccessorCalls' = nAccessorCalls + 1
  /\ LET a == [NoCall EXCEPT !.fn = fn, !.owner = owner, !.limit = limit,
                             !.storageAtCall = sessionStorage,
                             !.calledAt = now]
     IN IF FreshEntry(fn, owner, limit)
        THEN /\ acc' = [a EXCEPT !.pc = "returned", !.fromStorage = TRUE,
                          !.result = sessionStorage[StorageKey(fn, owner, limit)].data]
             /\ UNCHANGED sessionStorage
        ELSE Loop(a)
  /\ UNCHANGED <<now, total, nPagerTicks>>
  /\ UNCHANGED pipelineVars
  /\ UNCHANGED uiVars

\* the awaited cachedRequest resolves with the page the remote returned
PageResolves ==
  /\ acc.pc = "awaiting"
  /\ Loop(IF acc.fn = "getRepos" THEN ReposStep(acc, RemotePage(acc.page))
          ELSE FollowStep(acc, RemotePage(acc.page)))
  /\ UNCHANGED <<now, total, nAccessorCalls, nPagerTicks>>
  /\ UNCHANGED pipelineVars
  /\ UNCHANGED uiVars

\* (mutant) a failed page returns what was collected so far
OnPageRejectedPartial(a) == [a EXCEPT !.pc = "returned", !.result = a.all]

\* the catch of the accessor: log and rethrow
OnPageRejected(a) == [a EXCEPT !.pc = "thrown"]

\* the awaited cachedRequest rejects
PageRejects ==
  /\ acc.pc = "awaiting"
  /\ acc' = [OnPageRejected(acc) EXCEPT !.rejected = acc.page]
  /\ UNCHANGED <<now, total, sessionStorage, nAccessorCalls, nPagerTicks>>
  /\ UNCHANGED pipelineVars
  /\ UNCHANGED uiVars

PagerTickStep == 450

\* time passes between two accessor calls
PagerTick ==
  /\ acc.pc \in {"returned", "thrown"}
  /\ nPagerTicks < MaxPagerTicks
  /\ nPagerTicks' = nPagerTicks + 1
  /\ now' = now + PagerTickStep
  /\ UNCHANGED <<total, sessionStorage, acc, nAccessorCalls>>
  /\ UNCHANGED pipelineVars
  /\ UNCHANGED uiVars

PagerInit ==
  /\ sessionStorage = << >>
  /\ acc = NoCall
  /\ nAccessorCalls = 0
  /\ nPagerTicks = 0

\* ------------------------------------------------- routing and dashboard
Tabs == {"overview", "repositories", "projects"}
UrlTabs == Tabs \cup {"invalid-tab", "Projects"}
Usernames ==
  {"octocat", "Compare", "compare", "a012345678901234567890123456789bcdefghz",
   "user@name", "-username", "username-", "a012345678901234567890123456789bcdefghzx"}

Letters == "abcdefghijklmnopqrstuvwxyzABCDEFGHIJKLMNOPQRSTUVWXYZ"
Digits == "0123456789"

\* c is one of the characters of the string `chars`
CharIn(c, chars) == \E i \in 1..Len(chars) : SubSeq(chars, i, i) = c

\* /^[a-zA-Z0-9]([a-zA-Z0-9-]{0,37}[a-zA-Z0-9])?$/
isValidGitHubUsername(username) ==
  /\ Len(username) >= 1
  /\ CharIn(SubSeq(username, 1, 1), Letters \o Digits)
  /\ Len(username) >= 2 =>
       /\ Len(username) - 2 <= 37
       /\ \A i \in 2..(Len(username) - 1) :
            CharIn(SubSeq(username, i, i), Letters \o Digits \o "-")
       /\ CharIn(SubSeq(username, Len(username), Len(username)), Letters \o Digits)

\* String.prototype.toLowerCase
RECURSIVE toLowerCase(_)
toLowerCase(t) ==
  IF t = "" THEN t
  ELSE LET c == SubSeq(t, 1, 1)
           up == {i \in 27..52 : SubSeq(Letters, i, i) = c}
       IN (IF up = {} THEN c
           ELSE LET i == CHOOSE i \in up : TRUE IN SubSeq(Letters, i - 26, i - 26))
          \o toLowerCase(SubSeq(t, 2, Len(t)))

\* the segments of a path: "/a/b" is <<"a", "b">>
RECURSIVE Segments(_, _)
Segments(path, cur) ==
  IF path = "" THEN (IF cur = "" THEN << >> ELSE <<cur>>)
  ELSE IF SubSeq(path, 1, 1) = "/"
  THEN (IF cur = "" THEN << >> ELSE <<cur>>) \o Segments(SubSeq(path, 2, Len(path)), "")
  ELSE Segments(SubSeq(path, 2, Len(path)), cur \o SubSeq(path, 1, 1))

\* <Routes>: the element a path is routed to, and its useParams()
Match(path) ==
  LET seg == Segments(path, "") IN
  CASE Len(seg) = 0 -> [element |-> "HomePage"]
    [] Len(seg) = 1 /\ toLowerCase(seg[1]) = "compare" ->
         [element |-> "UserComparisonPage"]
    [] Len(seg) = 3 /\ toLowerCase(seg[1]) = "compare" ->
         [element |-> "UserComparisonPage"]
    [] Len(seg) = 1 -> [element |-> "UserDashboardPage", username |-> seg[1]]
    [] Len(seg) = 2 ->
         [element |-> "UserDashboardPage", username |-> seg[1], tab |-> seg[2]]
    [] OTHER -> [element |-> "NotFoundPage"]

\* the paths a user opens directly
UrlPaths ==
  {"/" \o u : u \in Usernames}
    \cup {"/" \o u \o "/" \o t : u \in Usernames, t \in UrlTabs}

\* the routes of UrlPaths, matched once
Routed == [path \in UrlPaths |-> Match(path)]

\* the parameters of the current route
useParams == IF location \in DOMAIN Routed THEN Routed[location] ELSE Match(location)

\* useTabNavigation: the active tab, from the tab parameter of the route
activeTab ==
  IF "tab" \in DOMAIN useParams /\ useParams.tab \in {"repositories", "projects"}
  THEN useParams.tab
  ELSE "overview"

\* (mutant) every tab is a path segment, the overview too, and the tab
\* parameter is read as it is
NavigationPathAlwaysTab(username, newTab) == "/" \o username \o "/tab/" \o newTab

\* useTabNavigation: the path navigateToTab(newTab) navigates to
NavigationPath(username, newTab) ==
  IF newTab = "overview" THEN "/" \o username
  ELSE "/" \o username \o "/" \o newTab

\* navigateToTab(newTab), on a page of `username`
NavigateToTab(newTab) ==
  /\ useParams.element = "UserDashboardPage"
  /\ location' = NavigationPath(useParams.username, newTab)
  /\ lastNav' = [lastNav EXCEPT !.tab = newTab, !.username = useParams.username]
  /\ UNCHANGED <<apiRequests, userDataCache>>
  /\ UNCHANGED <<now, total>>
  /\ UNCHANGED pipelineVars
  /\ UNCHANGED <<sessionStorage, acc, nAccessorCalls, nPagerTicks>>

\* (mutant) the hook is given the username of the URL as it is
UsernameForDataUnchecked(params) ==
  IF "username" \in DOMAIN params THEN params.username ELSE ""

\* isValidGitHubUsername over the usernames of the model, computed once
ValidUsernames == {u \in Usernames : isValidGitHubUsername(u)}

\* UserDashboardPage: isValidUsername
isValidUsername(username) ==
  /\ username # ""
  /\ IF username \in Usernames THEN username \in ValidUsernames
     ELSE isValidGitHubUsername(username)

\* UserDashboardPage: the username handed to useUserData
UsernameForData(params) ==
  IF "username" \in DOMAIN params /\ isValidUsername(params.username)
  THEN params.username ELSE ""

\* UserDashboardPage: what the page shows before any data has arrived
Shown(params) ==
  IF params.element # "UserDashboardPage" THEN params.element
  ELSE IF params.username # "" /\ ~isValidUsername(params.username)
  THEN "invalid-format"
  ELSE "dashboard"

\* toLowerCase over the usernames of the model, computed once
LowerCased == [u \in Usernames |-> toLowerCase(u)]

\* the key of userDataCache
CacheKeyOf(username) ==
  IF username \in Usernames THEN LowerCased[username] ELSE toLowerCase(username)

\* fetchUserData(usernameToFetch, forceRefresh), up to its first await
fetchUserData(reqs, usernameToFetch, forceRefresh) ==
  IF Trim(usernameToFetch) = "" THEN reqs
  ELSE IF ~forceRefresh /\ CacheKeyOf(usernameToFetch) \in userDataCache THEN reqs
  ELSE reqs \cup {[fn |-> "getUser", username |-> usernameToFetch]}

\* the address bar is given a path: the page is routed and rendered, the tab
\* redirect and the data effect run
OpenUrl(path) ==
  LET params == Routed[path]
      redirect == /\ params.element = "UserDashboardPage"
                  /\ isValidUsername(params.username)
                  /\ "tab" \in DOMAIN params
                  /\ params.tab \notin Tabs
  IN /\ location' = IF redirect THEN "/" \o params.username ELSE path
     /\ lastNav' = [tab |-> "none", username |-> "", hooks |-> {}]
     /\ apiRequests' =
          IF params.element = "UserDashboardPage"
          THEN fetchUserData({}, UsernameForData(params), FALSE)
          ELSE {}
     /\ UNCHANGED userDataCache
     /\ UNCHANGED <<now, total>>
     /\ UNCHANGED pipelineVars
     /\ UNCHANGED <<sessionStorage, acc, nAccessorCalls, nPagerTicks>>

\* fetchFollowers(force) / fetchFollowing(force) of useUserData
FetchFollow(fn, force) ==
  /\ useParams.element = "UserDashboardPage"
  /\ LET username == UsernameForData(useParams) IN
     apiRequests' =
       IF Trim(username) = "" THEN apiRequests
       ELSE apiRequests \cup {[fn |-> fn, username |-> username]}
  /\ lastNav' = [lastNav EXCEPT !.hooks = @ \cup {fn}]
  /\ UNCHANGED <<location, userDataCache>>
  /\ UNCHANGED <<now, total>>
  /\ UNCHANGED pipelineVars
  /\ UNCHANGED <<sessionStorage, acc, nAccessorCalls, nPagerTicks>>

\* refetch() of useUserData
Refetch ==
  /\ useParams.element = "UserDashboardPage"
  /\ LET username == UsernameForData(useParams) IN
     apiRequests' = IF username # "" THEN fetchUserData(apiRequests, username, TRUE)
                    ELSE apiRequests
  /\ lastNav' = [lastNav EXCEPT !.hooks = @ \cup {"refetch"}]
  /\ UNCHANGED <<location, userDataCache>>
  /\ UNCHANGED <<now, total>>
  /\ UNCHANGED pipelineVars
  /\ UNCHANGED <<sessionStorage, acc, nAccessorCalls, nPagerTicks>>

\* getUser, getProjects and getRepos have resolved: the result is cached
UserLoaded ==
  /\ \E r \in apiRequests : r.fn = "getUser"
  /\ LET username == UsernameForData(useParams) IN
     /\ apiRequests' = (apiRequests \ {r \in apiRequests : r.fn = "getUser"})
           \cup {[fn |-> "getProjects", username |-> username],
                 [fn |-> "getRepos", username |-> username]}
     /\ userDataCache' = userDataCache \cup {CacheKeyOf(username)}
  /\ UNCHANGED <<location, lastNav>>
  /\ UNCHANGED <<now, total>>
  /\ UNCHANGED pipelineVars
  /\ UNCHANGED <<sessionStorage, acc, nAccessorCalls, nPagerTicks>>

UiInit ==
  /\ location = "/"
  /\ lastNav = [tab |-> "none", username |-> "", hooks |-> {}]
  /\ apiRequests = {}
  /\ userDataCache = {}

\* ------------------------------------------------------- specifications
Init ==
  /\ now = 0
  /\ PipelineInit
  /\ PagerInit
  /\ UiInit
  /\ total = 0

Next ==
  \/ \E k \in Keys : Call(k)
  \/ \E d \in drains : DrainFire(d)
  \/ \E t \in resumes : ResumeFire(t)
  \/ \E t \in timers : TimerFire(t)
  \/ \E f \in inflight : \E r \in Responses : Respond(f, r)
  \/ Tick

\* the request pipeline, with the token left alone
Spec == Init /\ [][Next]_vars

InitPager ==
  /\ now = 0
  /\ PipelineInit
  /\ PagerInit
  /\ UiInit
  /\ total \in Totals

NextPager ==
  \/ \E fn \in Accessors : \E o \in Owners : \E l \in Limits :
       CallAccessor(fn, o, IF fn = "getRepos" THEN 0 ELSE l)
  \/ PageResolves
  \/ PageRejects
  \/ PagerTick

\* the paginated accessors, each awaited page resolving or rejecting
SpecPager == InitPager /\ [][NextPager]_vars

\* the answers of the remote the token runs are checked against
TokenResponses ==
  {Response(0, NoQuota, NoHdr, {}),
   Response(200, NoQuota, NoHdr, {}),
   Response(200, Quota(50), NoHdr, {})}

\* no answer of TokenResponses sets a retry timer or starts a cooldown
NextToken ==
  \/ \E k \in Keys : Call(k)
  \/ \E d \in drains : DrainFire(d)
  \/ \E f \in inflight : \E r \in TokenResponses : Respond(f, r)
  \/ Tick
  \/ WindowElapses
  \/ \E t \in Tokens \cup Blanks : SetToken(t)
  \/ \E p \in probes : \E ok \in BOOLEAN : ProbeRespond(p, ok)

\* the request pipeline with calls of setGitHubToken and their probes
SpecToken == Init /\ [][NextToken]_vars

\* the answers of the remote the fair runs are checked against: a success,
\* the 403 that is re-enqueued at once and the 403 that is retried by a timer
LiveResponses ==
  {Response(200, NoQuota, NoHdr, {}),
   Response(403, Quota(0), NoHdr, {}),
   Response(403, Quota(50), Hdr(0), {})}

NextLive ==
  \/ Call("users/a")
  \/ \E d \in drains : DrainFire(d)
  \/ \E t \in resumes : ResumeFire(t)
  \/ \E t \in timers : TimerFire(t)
  \/ \E f \in inflight : \E r \in LiveResponses :
       RespondTo(f, r) /\ UNCHANGED lastResp
  \/ Tick
  \/ nTokenSets = 0 /\ requestQueue # << >> /\ SetToken("ghp_0123456789")

\* timers fire when they are due and the clock does not stop; the remote may
\* leave a fetch unanswered
SpecLive ==
  /\ Init /\ [][NextLive]_vars
  /\ WF_vars(Tick)
  /\ WF_vars(\E d \in drains : DrainFire(d))
  /\ WF_vars(\E t \in resumes : ResumeFire(t))
  /\ WF_vars(\E t \in timers : TimerFire(t))

\* a remote that denies access to users/b (403 with quota left, Retry-After
\* 5 s) and serves users/a
OrderResponse(k) ==
  IF k = "users/b" THEN Response(403, Quota(50), Hdr(5), {})
  ELSE Response(200, Quota(50), NoHdr, {})

NextOrder ==
  \/ \E k \in Keys : CallWithin(k, MaxOrderCalls)
  \/ \E d \in drains : DrainFireWithin(d, MaxOrderFetches)
  \/ \E t \in resumes : ResumeFire(t)
  \/ \E t \in timers : TimerFire(t)
  \/ \E f \in inflight : Respond(f, OrderResponse(promises[f.p].key))
  \/ TickWithin(MaxOrderTime)

SpecOrder == Init /\ [][NextOrder]_vars

NextUi ==
  \/ \E path \in UrlPaths : OpenUrl(path)
  \/ \E t \in Tabs : NavigateToTab(t)
  \/ \E fn \in {"getFollowers", "getFollowing"} : \E force \in BOOLEAN :
       FetchFollow(fn, force)
  \/ Refetch
  \/ UserLoaded

\* the dashboard route: URLs opened, tabs clicked, data fetched
SpecUi == Init /\ [][NextUi]_vars

\* ================================================================ claims
Last(h) == h[Len(h)]

\* promise p still has work pending in the pipeline
Active(p) ==
  \/ \E i \in 1..Len(requestQueue) : requestQueue[i].p = p
  \/ \E d \in drains : d.item.p = p
  \/ \E t \in timers : t.p = p
  \/ \E f \in inflight : f.p = p
  \/ promises[p].follow # 0

Settled(p) == promises[p].st # "pending"

\* C1 (as claimed): a call made while an earlier call with the same descriptor
\* is pending issues no network call of its own and observes the outcome of
\* that earlier call.
C1_Dedup ==
  \A p \in DOMAIN promises :
    promises[p].joined # 0 =>
      /\ promises[p].fetches = 0
      /\ Settled(p) =>
           /\ promises[p].st = promises[promises[p].joined].st
           /\ promises[p].val = promises[promises[p].joined].val

\* C2 (as claimed): a call made after a success for the same descriptor, with
\* no credential change in between, issues no network call and resolves with
\* the value of that success.
C2_PositiveCache ==
  \A p \in DOMAIN promises :
    promises[p].prior # 0 =>
      /\ promises[p].fetches = 0
      /\ promises[p].st = "resolved"
      /\ promises[p].val = promises[p].prior

\* C3: at the moment a promise is rejected the cache holds no entry for its
\* descriptor, and a call made after a rejection for the same descriptor is
\* settled only by a network attempt of its own.
C3_NoPoisonedCache ==
  /\ [](\A p \in DOMAIN promises :
          (promises[p].afterFail /\ Settled(p)) =>
             (promises[p].fetches >= 1 /\ promises[p].hist # <<>>))
  /\ [][\A p \in DOMAIN promises :
          (promises[p].st = "pending" /\ promises'[p].st = "rejected") =>
             promises[p].key \notin DOMAIN cache']_vars

C3_Witness ==
  \E p \in DOMAIN promises :
    promises[p].afterFail /\ promises[p].fetches >= 1 /\ Settled(p)

\* C4: after a 403 answer with quota left the promise stays pending with its
\* retry scheduled, the retry's fetch is not sent before the scheduled delay
\* has passed, and the promise settles with the outcome of its last attempt,
\* never rejected by an answer of a retried class.
C4_ForbiddenRetried ==
  \A p \in DOMAIN promises :
    /\ (promises[p].hist # <<>> /\ Last(promises[p].hist) = "forbidden") =>
         /\ promises[p].st = "pending"
         /\ Active(p)
         /\ \A f \in inflight : f.p = p => f.at >= promises[p].notBefore
    /\ promises[p].st = "resolved" =>
         /\ promises[p].val = promises[p].last
         /\ Last(promises[p].hist) \in {"ok", "nocontent"}
    /\ promises[p].st = "rejected" =>
         Last(promises[p].hist) \in {"transport", "http"}

C4_Witness ==
  \E p \in DOMAIN promises :
    /\ Len(promises[p].hist) >= 2
    /\ promises[p].hist[Len(promises[p].hist) - 1] = "forbidden"
    /\ Settled(p)

C6_HttpFailureRejects ==
  \A p \in DOMAIN promises :
    (promises[p].hist # <<>> /\ Last(promises[p].hist) = "http") =>
      (promises[p].st = "rejected" /\ ~Active(p))

\* C7 (as claimed): the fetch that replays a request answered 403 with no
\* quota left is not sent before the quota reset time, and a successful replay
\* resolves the promise after exactly two fetches.
C7_ReplayAfterReset ==
  /\ \A f \in inflight :
       (promises[f.p].hist # <<>> /\ Last(promises[f.p].hist) = "exhausted") =>
          f.at >= promises[f.p].floor
  /\ \A p \in DOMAIN promises :
       (Len(promises[p].hist) = 2 /\ promises[p].hist[1] = "exhausted"
          /\ promises[p].hist[2] \in {"ok", "nocontent"}) =>
            (promises[p].st = "resolved" /\ promises[p].fetches = 2)

\* C8: getFollowers/getFollowing with limit > 0 and no fresh persisted entry
\* ask for a page only while fewer than limit items are collected, and return
\* exactly the first min(limit, total) items in remote order (limit 150
\* against 300 items: pages 1 and 2 only).
C8_PaginationBound ==
  (acc.fn \in {"getFollowers", "getFollowing"} /\ acc.limit > 0
     /\ ~acc.fromStorage) =>
    /\ \A i \in 1..Len(acc.askedAt) : acc.askedAt[i] < acc.limit
    /\ acc.pc = "returned" =>
         acc.result = SubSeq(Source, 1, Min(acc.limit, total))
    /\ (acc.pc = "returned" /\ acc.limit = 150 /\ total = 300) =>
         acc.requested = <<1, 2>>

C8_Witness ==
  /\ acc.fn = "getFollowers" /\ acc.limit = 150 /\ total = 300
  /\ acc.pc = "returned" /\ ~acc.fromStorage
  /\ Len(acc.result) = 150 /\ acc.requested = <<1, 2>>

\* C9: getRepos, and getFollowers/getFollowing with limit = 0, ask for pages
\* 1, 2, 3, ... in turn, ask for no page after a page shorter than 100 items,
\* and return every item of the remote collection in remote order.
C9_PaginationComplete ==
  ((acc.fn = "getRepos" \/ (acc.fn \in {"getFollowers", "getFollowing"}
                              /\ acc.limit = 0))
     /\ ~acc.fromStorage) =>
    /\ acc.requested = [i \in 1..Len(acc.requested) |-> i]
    /\ \A i \in 1..(Len(acc.requested) - 1) : Len(RemotePage(i)) = per_page
    /\ acc.pc = "returned" =>
         /\ acc.result = Source
         /\ Len(acc.requested) = (total \div per_page) + 1

C9_Witness ==
  /\ acc.fn = "getFollowing" /\ acc.limit = 0 /\ total = 242
  /\ acc.pc = "returned" /\ ~acc.fromStorage
  /\ Len(acc.result) = 242 /\ acc.requested = <<1, 2, 3>>

\* C10: when the request for page k is rejected the accessor throws, has asked
\* for no page after k, returns nothing, and leaves the persisted cache as it
\* was when the accessor was called.
C10_PaginationFailure ==
  acc.rejected # 0 =>
    /\ acc.pc = "thrown"
    /\ acc.result = << >>
    /\ acc.requested = [i \in 1..acc.rejected |-> i]
    /\ sessionStorage = acc.storageAtCall

C10_Witness ==
  /\ acc.rejected = 2 /\ Len(acc.all) = per_page
  /\ acc.fn = "getFollowers" /\ acc.pc = "thrown"

\* two calls share a storage key only if they agree on kind, owner and limit
DistinctStorageKeys ==
  \A f1 \in Accessors \ {"getRepos"}, f2 \in Accessors \ {"getRepos"} :
    \A o1 \in Owners, o2 \in Owners : \A l1 \in Limits, l2 \in Limits :
      StorageKey(f1, o1, l1) = StorageKey(f2, o2, l2) =>
        (f1 = f2 /\ o1 = o2 /\ l1 = l2)

\* C11: getFollowers/getFollowing answer from the persisted cache, asking for
\* no page, exactly when an entry stored for the same kind, owner and limit is
\* less than 15 minutes old at the call; an older entry or an entry of another
\* kind, owner or limit is not used; and an entry is written only by a call
\* whose pages all resolved, under the key of that call.
C11_PersistedCache ==
  /\ DistinctStorageKeys
  /\ acc.fn \in {"getFollowers", "getFollowing"} =>
       LET k == StorageKey(acc.fn, acc.owner, acc.limit)
           fresh == /\ k \in DOMAIN acc.storageAtCall
                    /\ acc.calledAt - acc.storageAtCall[k].timestamp < STORAGE_TTL
       IN /\ acc.fromStorage <=> fresh
          /\ acc.fromStorage =>
               /\ acc.pc = "returned"
               /\ acc.requested = << >>
               /\ acc.result = acc.storageAtCall[k].data
               /\ sessionStorage = acc.storageAtCall
          /\ ~acc.fromStorage => acc.requested # << >>
          /\ sessionStorage # acc.storageAtCall =>
               /\ acc.pc = "returned" /\ acc.rejected = 0
               /\ \A x \in DOMAIN acc.storageAtCall :
                    x # k => (x \in DOMAIN sessionStorage
                              /\ sessionStorage[x] = acc.storageAtCall[x])
               /\ DOMAIN sessionStorage = DOMAIN acc.storageAtCall \cup {k}
               /\ sessionStorage[k].data = acc.result

\* a call answered from an entry 450 s old, after which the entry expired and
\* was fetched again
C11_Witness ==
  /\ acc.fn = "getFollowers" /\ acc.pc = "returned" /\ ~acc.fromStorage
  /\ StorageKey(acc.fn, acc.owner, acc.limit) \in DOMAIN acc.storageAtCall
  /\ acc.calledAt
       - acc.storageAtCall[StorageKey(acc.fn, acc.owner, acc.limit)].timestamp
         = STORAGE_TTL
  /\ Len(acc.result) > 0

\* C12 (as claimed): after setGitHubToken(X), X not blank, the credential is
\* X, and until a probe is answered successfully or a response carries a
\* quota header, remainingRequests is 5000 and resetTime is one hour after
\* the moment of the call (the step of the call included).
C12_CredentialReset ==
  /\ (nTokenSets > 0 /\ quotaSince.arg \notin Blanks) =>
       GITHUB_TOKEN = quotaSince.arg
  /\ (GITHUB_TOKEN # "" /\ ~quotaSince.touched) =>
       /\ remainingRequests = 5000
       /\ resetTime = quotaSince.at + 3600

\* C13: a call of setGitHubToken with an empty or whitespace-only value leaves
\* the credential, the quota state, the 403 bookkeeping, the cache, the queue
\* and the probes as they were; a call with any other value, of the expected
\* format or not, stores it, resets the quota state to 5000 / one hour ahead,
\* clears the 403 bookkeeping and the cache, and issues one probe carrying it.
C13_CredentialValidation ==
  [][nTokenSets' # nTokenSets =>
       IF quotaSince'.arg \in Blanks
       THEN UNCHANGED <<GITHUB_TOKEN, remainingRequests, resetTime,
                        forbiddenErrorCount, lastForbiddenErrorTime, cache,
                        requestQueue, isProcessingQueue, drains, probes>>
       ELSE /\ GITHUB_TOKEN' = quotaSince'.arg
            /\ remainingRequests' = TOKEN_REMAINING
            /\ resetTime' = now + RESET_HORIZON
            /\ forbiddenErrorCount' = 0 /\ lastForbiddenErrorTime' = 0
            /\ cache' = << >>
            /\ UNCHANGED <<requestQueue, isProcessingQueue, drains>>
            /\ \E p \in probes' : /\ probes' \ probes = {p}
                                  /\ p.auth = quotaSince'.arg]_vars

\* a value of unexpected format was stored (with its warning and its probe)
\* and a whitespace-only value was refused after it
C13_Witness ==
  /\ nTokenSets = 2
  /\ GITHUB_TOKEN = "secret" /\ quotaSince.warned
  /\ quotaSince.arg = "  "
  /\ \E p \in probes : p.auth = "secret"
  /\ remainingRequests = TOKEN_REMAINING

\* C14: a fetch carries the Authorization header exactly when the credential
\* is not empty in the step that issues it, and the header holds the
\* credential of that step, also for a request that was enqueued before the
\* credential was set; the probe of setGitHubToken carries the new credential.
C14_AuthorizationHeader ==
  [][/\ \A f \in inflight' \ inflight :
          /\ (f.auth # "none") <=> (GITHUB_TOKEN' # "")
          /\ GITHUB_TOKEN' # "" => f.auth = GITHUB_TOKEN'
          /\ GITHUB_TOKEN' = GITHUB_TOKEN
     /\ \A p \in probes' \ probes :
          p.auth = GITHUB_TOKEN' /\ GITHUB_TOKEN' # ""]_vars

\* a request enqueued while the credential was empty is in flight with the
\* credential set after it was enqueued
C14_Witness ==
  \E f \in inflight :
    /\ promises[f.p].tokAtCall = ""
    /\ f.auth = "ghp_0123456789"
    /\ GITHUB_TOKEN = "ghp_0123456789"

\* promise p has an item in the queue, or dequeued and waiting for its pacing
\* delay to end
InQueue(p) ==
  \/ \E i \in 1..Len(requestQueue) : requestQueue[i].p = p
  \/ \E d \in drains : d.item.p = p

\* the run cannot go on within the bounds: the next fetch or the next timer
\* lies beyond them
OutOfBounds ==
  \/ nFetch >= MaxFetches /\ \E d \in drains : d.item.kind = "executeRequest"
  \/ Deadlines # {} /\ \A t \in Deadlines : t > MaxTime

\* C15: whenever the queue is not empty a drain loop is waiting for its pacing
\* delay or a cooldown resume timer is pending, and with timers firing when
\* due every queued item is eventually dequeued and executed, whether it was
\* enqueued during a drain, during a cooldown or before a setGitHubToken call.
C15_NoAbandonment ==
  /\ [](requestQueue # << >> => (drains # {} \/ resumes # {}))
  /\ [](requestQueue # << >> => isProcessingQueue)
  /\ \A p \in 1..MaxCalls :
       (p \in DOMAIN promises /\ InQueue(p)) ~>
          (~InQueue(p) \/ OutOfBounds)

\* the queue was suspended for a cooldown and the resume timer started the
\* drain loop again at the end of the cooldown
C15_Witness ==
  /\ lastForbiddenErrorTime > 0
  /\ resumes = {}
  /\ \E d \in drains :
       d.due = lastForbiddenErrorTime + FORBIDDEN_COOLDOWN + d.delay

\* C16: after navigateToTab(t) the URL is /username for overview and
\* /username/t for the other tabs, and the active tab read from that URL is
\* t; a URL whose tab segment is missing or is not one of the three tabs
\* gives the active tab overview.
C16_TabRoundTrip ==
  /\ lastNav.tab # "none" =>
       /\ location = (IF lastNav.tab = "overview" THEN "/" \o lastNav.username
                      ELSE "/" \o lastNav.username \o "/" \o lastNav.tab)
       /\ activeTab = lastNav.tab
  /\ LET seg == Segments(location, "") IN
       (Len(seg) < 2 \/ seg[2] \notin Tabs) => activeTab = "overview"

C16_Witness ==
  /\ lastNav.tab = "projects" /\ lastNav.username = "octocat"
  /\ location = "/octocat/projects"
  /\ activeTab = "projects"

\* the usernames of the model that break the format: a character that is no
\* letter, digit or hyphen, a hyphen at either end, or more than 39 characters
FormatViolations ==
  {u \in Usernames :
     \/ \E i \in 1..Len(u) : ~CharIn(SubSeq(u, i, i), Letters \o Digits \o "-")
     \/ SubSeq(u, 1, 1) = "-"
     \/ SubSeq(u, Len(u), Len(u)) = "-"
     \/ Len(u) > 39}

\* C17: on a dashboard URL whose username breaks the format the page shows
\* the invalid-format error and no accessor is called for that username, by
\* the initial load, by refetch or by fetchFollowers / fetchFollowing; and
\* every other username of the model is accepted.
C17_InvalidUsername ==
  /\ \A r \in apiRequests : r.username \notin FormatViolations
  /\ (useParams.element = "UserDashboardPage"
        /\ useParams.username \in FormatViolations) =>
       /\ Shown(useParams) = "invalid-format"
       /\ apiRequests = {}
  /\ (useParams.element = "UserDashboardPage"
        /\ useParams.username \in Usernames \ FormatViolations) =>
       Shown(useParams) = "dashboard"

\* the followers and following fetches and a refetch were asked for on the
\* page of a username of 40 characters
C17_Witness ==
  /\ useParams.element = "UserDashboardPage"
  /\ Len(useParams.username) = 40
  /\ useParams.username \in FormatViolations
  /\ lastNav.hooks = {"getFollowers", "getFollowing", "refetch"}
  /\ apiRequests = {}

\* C18: at most one drain loop is waiting for its pacing delay, at most one
\* cooldown resume timer is pending, never both, and isProcessingQueue is
\* false exactly when there is neither; so a call of processQueue made while
\* a loop runs or the queue is suspended starts no second loop.
C18_SingleDrainLoop ==
  /\ Cardinality(drains) + Cardinality(resumes) <= 1
  /\ isProcessingQueue <=> (drains # {} \/ resumes # {})

\* two items were pushed while the queue was suspended for a cooldown
C18_Witness ==
  /\ resumes # {} /\ drains = {}
  /\ Len(requestQueue) >= 2
  /\ isProcessingQueue

\* C19: the closures are executed in the order of their pushes: the closure
\* taken by the drain loop is the one pushed right after the one executed
\* last, and the queue holds the later pushes in push order, a retry behind
\* everything that was already queued.
C19_FifoExecution ==
  LET taken == Cardinality(drains) IN
  /\ \A d \in drains : d.item.n = lastExec + 1
  /\ \A i \in 1..Len(requestQueue) : requestQueue[i].n = lastExec + taken + i
  /\ nPush = lastExec + taken + Len(requestQueue)

\* a retry closure has been executed, and the attempt it made for the older
\* call waits in the queue behind the request of a newer call
C19_Witness ==
  /\ Len(requestQueue) >= 2
  /\ requestQueue[1].p > requestQueue[2].p
  /\ requestQueue[2].kind = "executeRequest"
  /\ lastExec >= 2

\* C20: no closure is taken off the queue while forbiddenErrorCount is at
\* least MAX_FORBIDDEN_ERRORS and less than FORBIDDEN_COOLDOWN has passed
\* since lastForbiddenErrorTime, a running drain loop included. A closure
\* held by the drain loop was taken off at due - delay; when that is later
\* than lastForbiddenErrorTime no 403 was answered since, so the count was
\* then at least what it is now.
C20_Cooldown ==
  \A d \in drains :
    ~ /\ forbiddenErrorCount >= MAX_FORBIDDEN_ERRORS
      /\ lastForbiddenErrorTime < d.due - d.delay
      /\ (d.due - d.delay) - lastForbiddenErrorTime < FORBIDDEN_COOLDOWN

\* a step that handles a response
Handled == lastResp'.n # lastResp.n

\* C21: handling a 403 response whose remaining count is 0 leaves
\* forbiddenErrorCount and lastForbiddenErrorTime as they were.
C21_ExhaustedLeavesCount ==
  [][(Handled /\ lastResp'.r.status = 403 /\ lastResp'.r.rem = Hdr(0)) =>
       /\ forbiddenErrorCount' = forbiddenErrorCount
       /\ lastForbiddenErrorTime' = lastForbiddenErrorTime]_vars

\* C22: a 403 response with remaining quota not 0 schedules the retry after
\* max(Retry-After hint, forbiddenErrorCount x 10 s), the count taken after
\* this response's increment; without a hint after forbiddenErrorCount x 10 s.
C22_BackoffDelay ==
  [][(/\ Handled
      /\ lastResp'.r.status = 403
      /\ (IF lastResp'.r.rem # NoHdr THEN lastResp'.r.rem[1]
          ELSE remainingRequests) # 0) =>
       \E t \in timers' \ timers :
         /\ t.p = lastResp'.p
         /\ t.due = now + Max(IF lastResp'.r.retryAfter # NoHdr
                               THEN lastResp'.r.retryAfter[1] ELSE 0,
                              forbiddenErrorCount' * FORBIDDEN_STEP)]_vars

\* C23: handling an answered response that carries both quota headers, a
\* success or a failure, leaves remainingRequests and resetTime at the values
\* of the headers; a fetch that fails without a response leaves both as they
\* were.
C23_QuotaApplication ==
  [][Handled =>
       /\ (lastResp'.r.rem # NoHdr /\ lastResp'.r.reset # NoHdr) =>
            /\ remainingRequests' = lastResp'.r.rem[1]
            /\ resetTime' = lastResp'.r.reset[1]
       /\ lastResp'.r.status = 0 =>
            /\ remainingRequests' = remainingRequests
            /\ resetTime' = resetTime]_vars

\* a 403 carrying both headers has been handled and its retry is scheduled,
\* with the quota the headers gave
C23_Witness ==
  /\ lastResp.r.status = 403
  /\ lastResp.r.rem = Hdr(50) /\ lastResp.r.reset # NoHdr
  /\ remainingRequests = 50 /\ resetTime = lastResp.r.reset[1]
  /\ \E t \in timers : t.p = lastResp.p

\* C24: forbiddenErrorCount is never negative; a 403 response with remaining
\* quota not 0 increases it by exactly 1, and a successful response (200, or
\* 204 No Content) handled while it is positive decreases it by exactly 1.
C24_ForbiddenCountDecay ==
  /\ [](forbiddenErrorCount >= 0)
  /\ [][Handled =>
          /\ (/\ lastResp'.r.status = 403
              /\ (IF lastResp'.r.rem # NoHdr THEN lastResp'.r.rem[1]
                  ELSE remainingRequests) # 0) =>
               forbiddenErrorCount' = forbiddenErrorCount + 1
          /\ (lastResp'.r.status \in {200, 204} /\ forbiddenErrorCount > 0) =>
               forbiddenErrorCount' = forbiddenErrorCount - 1]_vars

\* C25: when processQueue starts a drain after the quota window has elapsed,
\* and not in the handling of a response, remainingRequests falls back to
\* DEFAULT_REMAINING while no token is set and to TOKEN_REMAINING while one
\* is set, and resetTime is one hour ahead.
C25_QuotaFallback ==
  [][(/\ ~isProcessingQueue /\ isProcessingQueue' /\ drains' # {}
      /\ now > resetTime
      /\ ~Handled) =>
       /\ remainingRequests' = (IF GITHUB_TOKEN = "" THEN DEFAULT_REMAINING
                                ELSE TOKEN_REMAINING)
       /\ resetTime' = now + RESET_HORIZON]_vars

\* C26: a network call, the rate_limit probe of setGitHubToken included, is
\* issued only by the drain loop of processQueue executing a closure it took
\* off the queue.
C26_SoleSerializationPoint ==
  [][(~(inflight' \subseteq inflight) \/ ~(probes' \subseteq probes)) =>
       lastExec' # lastExec]_vars

\* C27: the delay the drain loop waits before it executes a closure is the
\* pacing delay for remainingRequests and forbiddenErrorCount as they are
\* when the closure is taken off the queue, also for the later closures of a
\* drain during which a response changed them.
C27_AdaptivePacing ==
  [][\A d \in drains' \ drains :
       d.delay = PacingDelay(remainingRequests', forbiddenErrorCount')]_vars

\* C28: no fetch is issued while forbiddenErrorCount is at least
\* MAX_FORBIDDEN_ERRORS and less than FORBIDDEN_COOLDOWN has passed since
\* lastForbiddenErrorTime; a closure the drain loop executes in that window
\* issues no fetch and sets a timer that submits the request again, for the
\* same promise, later than lastForbiddenErrorTime + FORBIDDEN_COOLDOWN.
C28_NoFetchInCooldown ==
  [][/\ ~(inflight' \subseteq inflight) => ~InCooldown(G)
     /\ \A d \in drains :
          (/\ lastExec' # lastExec /\ d.item.n = lastExec'
           /\ d.item.kind = "executeRequest" /\ InCooldown(G)) =>
            /\ inflight' = inflight
            /\ \E t \in timers' \ timers :
                 /\ t.p = d.item.p
                 /\ t.due > lastForbiddenErrorTime + FORBIDDEN_COOLDOWN
     /\ \A t \in timers \ timers' : now >= t.due]_vars

\* a closure was executed during the cooldown and issued no fetch; its timer
\* has fired after the cooldown and the request is queued again
C28_Witness ==
  \E p \in DOMAIN promises :
    /\ promises[p].deferred /\ promises[p].st = "pending"
    /\ InQueue(p)
    /\ \A t \in timers : t.p # p
    /\ lastForbiddenErrorTime > 0
    /\ now > lastForbiddenErrorTime + FORBIDDEN_COOLDOWN

\* the requests the remote of SpecOrder never fails
Served(p) == OrderResponse(promises[p].key).status = 200

\* C29: of two requests that get no failed response, the one submitted first
\* has its fetch issued first: when a fetch was issued for the later one, a
\* fetch was issued for the earlier one, also when 403 responses to another
\* request put the queue into cooldown in between.
C29_RequestOrdering ==
  \A a, b \in DOMAIN promises :
    (a < b /\ Served(a) /\ Served(b) /\ promises[b].fetches >= 1) =>
      promises[a].fetches >= 1

\* C30: the answer to the probe of a credential that is no longer the
\* current one leaves remainingRequests and resetTime as they are, so that
\* they reflect the probe answer for the current credential.
C30_ProbeFreshness ==
  [][\A p \in probes \ probes' :
       p.auth # GITHUB_TOKEN =>
         /\ remainingRequests' = remainingRequests
         /\ resetTime' = resetTime]_vars

====
